---- MODULE Spec2Model ----
(***************************************************************************)
(* proxy-monitor (src/main.py): the check-record-alert pipeline.           *)
(*                                                                         *)
(* One invocation of main() resolves its configuration, then for each      *)
(* configured website probes it through the proxy (check_proxy_speed),     *)
(* records the outcome in the Excel log (log_to_excel, a read of the whole *)
(* file followed by a rewrite of the whole file) and, when the probe       *)
(* failed, calls send_email_alert.                                         *)
(*                                                                         *)
(* Conventions.  An optional Python value is a sequence: <<>> is None and  *)
(* <<v>> is the value v.  A Python str is a sequence of one-character      *)
(* strings where the code looks inside it (URLs, sheet names, the          *)
(* formatted download time) and a TLA+ string otherwise.  Time is counted  *)
(* in units of 1/10000 s, the resolution the log keeps.                    *)
(***************************************************************************)
EXTENDS Integers, Sequences, FiniteSets, TLC

VARIABLES
    now,            \* the wall clock read by time.time() and datetime.now()
    store,          \* the Excel log file at args.log_file
    args,           \* per invocation: the resolved argparse namespace
    pc,             \* per invocation: position in main()
    idx,            \* per invocation: index of the website of the for loop
    start_time,     \* per invocation: check_proxy_speed's start_time
    download_time,  \* per invocation: main's download_time (<<>> is None)
    sheets,         \* per invocation: log_to_excel's dict of sheets
    log_call,       \* per invocation: arguments of the current log_to_excel call
    log_err,        \* per invocation: what the last log_to_excel call caught
    events,         \* per invocation: the calls main() has made, in order
    mail,           \* per invocation: what the last send_email_alert call did
    journal         \* per sheet name: the rows the log started with, then the
                    \* rows of the log_to_excel calls that caught nothing

vars == <<now, store, args, pc, idx, start_time, download_time, sheets,
          log_call, log_err, events, mail, journal>>

----------------------------------------------------------------------------
(* Bounds of the model *)

\* longest list of websites a configuration holds
MaxTargets == 2

\* last instant of the wall clock
MaxClock == 2

\* longest list of websites of a run under the moving clock
MaxTimedTargets == 1

\* longest list of websites of two overlapping runs
MaxOverlapTargets == 1

\* the invocations of main(); the second one may overlap the first
Procs == {"run1", "run2"}

----------------------------------------------------------------------------
(* Python values *)

None == <<>>

Some(v) == <<v>>

\* bool(x) of an optional str: None and "" are false
TruthyStr(o) == o # None /\ o[1] # ""

\* bool(x) of an optional int: None and 0 are false
TruthyInt(o) == o # None /\ o[1] # 0

\* bool(x) of a list: None and [] are false (both are <<>> here)
TruthyList(l) == l # <<>>

\* str.replace(old, new): every non-overlapping occurrence, left to right
RECURSIVE Replace(_, _, _)
Replace(s, old, new) ==
    IF Len(s) < Len(old) THEN s
    ELSE IF SubSeq(s, 1, Len(old)) = old
         THEN new \o Replace(SubSeq(s, Len(old) + 1, Len(s)), old, new)
         ELSE <<s[1]>> \o Replace(Tail(s), old, new)

\* s[:n]
Prefix(s, n) == SubSeq(s, 1, IF Len(s) < n THEN Len(s) ELSE n)

Digits == <<"0", "1", "2", "3", "4", "5", "6", "7", "8", "9">>

\* str(n) for n >= 0
RECURSIVE IntStr(_)
IntStr(n) == IF n < 10 THEN <<Digits[n + 1]>>
             ELSE IntStr(n \div 10) \o <<Digits[(n % 10) + 1]>>

\* f"{t:.4f}" of a time of t units of 1/10000 s
Fmt4(t) ==
    LET a == IF t < 0 THEN 0 - t ELSE t
        f == a % 10000
    IN  (IF t < 0 THEN <<"-">> ELSE <<>>)
        \o IntStr(a \div 10000) \o <<".">>
        \o <<Digits[(f \div 1000) + 1], Digits[((f \div 100) % 10) + 1],
             Digits[((f \div 10) % 10) + 1], Digits[(f % 10) + 1]>>

----------------------------------------------------------------------------
(* sanitize_sheet_name *)

HttpsPrefix == <<"h", "t", "t", "p", "s", ":", "/", "/">>
HttpPrefix == <<"h", "t", "t", "p", ":", "/", "/">>
WwwPrefix == <<"w", "w", "w", ".">>

\* invalid_chars without the colon
invalid_charsNoColon == <<"[", "]", "/", "\\", "?", "*">>

invalid_chars == <<"[", "]", "/", "\\", "?", "*", ":">>

MaxSheetName == 31

RECURSIVE ReplaceChars(_, _)
ReplaceChars(name, chars) ==
    IF chars = <<>> THEN name
    ELSE ReplaceChars(Replace(name, <<Head(chars)>>, <<"_">>), Tail(chars))

sanitize_sheet_name(url) ==
    LET name == Replace(Replace(Replace(url, HttpsPrefix, <<>>),
                                HttpPrefix, <<>>), WwwPrefix, <<>>)
    IN  Prefix(ReplaceChars(name, invalid_chars), MaxSheetName)

----------------------------------------------------------------------------
(* Inputs: websites, command lines, configuration files *)

\* "http://a"
UrlA == HttpPrefix \o <<"a">>

\* "https://a": another website that main() is given; it has UrlA's sheet name
UrlB == HttpsPrefix \o <<"a">>

\* "b/c"
UrlC == <<"b", "/", "c">>

Urls == {UrlA, UrlB, UrlC}

\* the sheet name of each website, computed once
SheetName == [u \in Urls |-> sanitize_sheet_name(u)]

\* the non-empty lists of websites (--websites has nargs='+')
WebsiteLists ==
    UNION {[1..n -> Urls] : n \in 1..MaxTargets}

OptHost == {None, Some("proxy")}
OptPort == {None, Some(0), Some(3128)}
OptLogFile == {None, Some("log.xlsx")}
OptRecipient == {None, Some(""), Some("ops@example")}
OptSmtpServer == {None, Some("smtp.example")}
OptSmtpPort == {None, Some(0), Some(465)}
OptSmtpUser == {None, Some(""), Some("user")}
OptSmtpPassword == {None, Some("secret")}

\* the email_alerts settings a namespace can hold
AlertArgs ==
    [recipient_email : OptRecipient, use_local_mta : BOOLEAN,
     smtp_server : OptSmtpServer, smtp_port : OptSmtpPort,
     smtp_user : OptSmtpUser, smtp_password : OptSmtpPassword]

NoAlertArgs ==
    [recipient_email |-> None, use_local_mta |-> FALSE, smtp_server |-> None,
     smtp_port |-> None, smtp_user |-> None, smtp_password |-> None]

\* the email_alerts sections of the configuration files of the pipeline runs:
\* none, SMTP fields without a recipient, local MTA beside complete SMTP
\* fields, remote complete, remote with port 0, remote without password
FullSmtp ==
    [recipient_email |-> Some("ops@example"), use_local_mta |-> FALSE,
     smtp_server |-> Some("smtp.example"), smtp_port |-> Some(465),
     smtp_user |-> Some("user"), smtp_password |-> Some("secret")]

EmailSections ==
    {NoAlertArgs,
     [FullSmtp EXCEPT !.recipient_email = None],
     [FullSmtp EXCEPT !.use_local_mta = TRUE],
     FullSmtp,
     [FullSmtp EXCEPT !.smtp_port = Some(0)],
     [FullSmtp EXCEPT !.smtp_password = None]}

\* what a configuration file gives as argparse defaults (lines 129-136); a
\* file that cannot be read or parsed gives none (lines 137-138)
NoDefaults ==
    [host |-> None, port |-> None, websites |-> <<>>, log_file |-> None,
     alerts |-> NoAlertArgs]

FileDefaults ==
    [host : OptHost, port : OptPort, websites : WebsiteLists \cup {<<>>},
     log_file : OptLogFile, alerts : EmailSections]

\* what a command line gives: the required options, the recipient and the
\* --use-local-mta flag
CliOptions ==
    [host : OptHost, port : OptPort, websites : {<<>>, <<UrlC>>},
     log_file : OptLogFile, recipient_email : {None, Some("ops@example")},
     use_local_mta : BOOLEAN]

\* an option given on the command line wins over the file's default
Given(opt, default) == IF opt # None THEN opt ELSE default

\* parser.parse_args(remaining_argv) after parser.set_defaults(**defaults)
Resolve(cli, defaults) ==
    [host |-> Given(cli.host, defaults.host),
     port |-> Given(cli.port, defaults.port),
     websites |-> Given(cli.websites, defaults.websites),
     log_file |-> Given(cli.log_file, defaults.log_file),
     recipient_email |-> Given(cli.recipient_email, defaults.alerts.recipient_email),
     use_local_mta |-> cli.use_local_mta \/ defaults.alerts.use_local_mta,
     smtp_server |-> defaults.alerts.smtp_server,
     smtp_port |-> defaults.alerts.smtp_port,
     smtp_user |-> defaults.alerts.smtp_user,
     smtp_password |-> defaults.alerts.smtp_password]

\* a variant that does not look at the log file
RequiredPresentNoLogFile(a) ==
    /\ TruthyStr(a.host)
    /\ TruthyInt(a.port)
    /\ TruthyList(a.websites)

\* all([args.host, args.port, args.websites, args.log_file])
RequiredPresent(a) ==
    /\ TruthyStr(a.host)
    /\ TruthyInt(a.port)
    /\ TruthyList(a.websites)
    /\ TruthyStr(a.log_file)

\* the namespace before parse_args
NoArgs == Resolve([host |-> None, port |-> None, websites |-> <<>>,
                   log_file |-> None, recipient_email |-> None,
                   use_local_mta |-> FALSE], NoDefaults)

----------------------------------------------------------------------------
(* The Excel log *)

\* no file at args.log_file
AbsentStore == [state |-> "absent", sheets |-> <<>>]

\* a file that pd.ExcelFile cannot open: truncated or half written
CorruptStore == [state |-> "corrupt", sheets |-> <<>>]

\* a workbook: sheet name -> the rows of the sheet, in order
Workbook(s) == [state |-> "ok", sheets |-> s]

\* the row of df_new_row: Timestamp, URL, Download Time (s), Status
Row(ts, url, time, status) == <<ts, url, Fmt4(time), status>>

\* a sheet left by an earlier run, of a website that is not checked any more
OtherSheet == <<"o", "l", "d">>

\* the logs an invocation may find: none, one without and one with the sheet
\* of UrlA and UrlB (an earlier run found UrlA down)
InitialStores ==
    {AbsentStore,
     Workbook(OtherSheet :> <<Row(0, OtherSheet, 7, "UP")>>),
     Workbook((SheetName[UrlA] :> <<Row(0, UrlA, 0, "DOWN")>>)
              @@ (OtherSheet :> <<Row(0, OtherSheet, 7, "UP")>>))}

SheetNames == {SheetName[u] : u \in Urls} \cup {OtherSheet}

\* the rows of a sheet of the log; none when the sheet or the log is missing
Rows(st, name) == IF name \in DOMAIN st.sheets THEN st.sheets[name] ELSE <<>>

----------------------------------------------------------------------------
(* State of an invocation *)

NoCall == [url |-> <<>>, time |-> 0, status |-> "", sheet_name |-> <<>>,
           row |-> <<>>]

NoMail == [calls |-> <<>>, result |-> "", detected |-> 0]

Event(op, i, url, time, status) ==
    [op |-> op, i |-> i, url |-> url, time |-> time, status |-> status]

\* before main() has run
Idle ==
    /\ now = 0
    /\ store \in InitialStores
    /\ journal = [n \in SheetNames |-> Rows(store, n)]
    /\ start_time = [p \in Procs |-> 0]
    /\ download_time = [p \in Procs |-> None]
    /\ sheets = [p \in Procs |-> <<>>]
    /\ log_call = [p \in Procs |-> NoCall]
    /\ log_err = [p \in Procs |-> "none"]
    /\ events = [p \in Procs |-> <<>>]
    /\ mail = [p \in Procs |-> NoMail]

Init ==
    /\ Idle
    /\ args = [p \in Procs |-> NoArgs]
    /\ pc = [p \in Procs |-> "start"]
    /\ idx = [p \in Procs |-> 0]

\* time passes
Tick ==
    /\ now < MaxClock
    /\ now' = now + 1
    /\ UNCHANGED <<store, args, pc, idx, start_time, download_time, sheets,
                   log_call, log_err, events, mail, journal>>

\* the wall clock is set back (time.time() and datetime.now() read the
\* system's wall clock, which is not monotonic)
ClockSetBack ==
    /\ now > 0
    /\ now' = now - 1
    /\ UNCHANGED <<store, args, pc, idx, start_time, download_time, sheets,
                   log_call, log_err, events, mail, journal>>

\* main(), lines 117-168: the options are resolved; parser.error() exits when
\* a required one is missing
ParseArgs(p) ==
    /\ pc[p] = "start"
    /\ \E cli \in CliOptions, defaults \in FileDefaults \cup {NoDefaults} :
         LET a == Resolve(cli, defaults) IN
         /\ args' = [args EXCEPT ![p] = a]
         /\ IF RequiredPresent(a)
            THEN pc' = [pc EXCEPT ![p] = "probe"] /\ idx' = [idx EXCEPT ![p] = 1]
            ELSE pc' = [pc EXCEPT ![p] = "error"] /\ idx' = idx
    /\ UNCHANGED <<now, store, start_time, download_time, sheets, log_call,
                   log_err, events, mail, journal>>

\* a variant that walks the list from its end
websiteReversed(p) == args[p].websites[Len(args[p].websites) + 1 - idx[p]]

\* for website in args.websites
website(p) == args[p].websites[idx[p]]

\* the end of an iteration of the for loop
NextWebsite(p) ==
    IF idx[p] < Len(args[p].websites)
    THEN pc' = [pc EXCEPT ![p] = "probe"] /\ idx' = [idx EXCEPT ![p] = idx[p] + 1]
    ELSE pc' = [pc EXCEPT ![p] = "done"] /\ idx' = idx

\* check_proxy_speed, line 24: the request starts
ProbeStart(p) ==
    /\ pc[p] = "probe"
    /\ start_time' = [start_time EXCEPT ![p] = now]
    /\ download_time' = [download_time EXCEPT ![p] = None]
    /\ log_call' = [log_call EXCEPT ![p] = NoCall]
    /\ log_err' = [log_err EXCEPT ![p] = "none"]
    /\ mail' = [mail EXCEPT ![p] = NoMail]
    /\ events' = [events EXCEPT ![p] =
           Append(@, Event("check", idx[p], website(p), None, ""))]
    /\ pc' = [pc EXCEPT ![p] = "request"]
    /\ UNCHANGED <<now, store, args, idx, sheets, journal>>

\* end_time - start_time
Elapsed(end_time, start) == end_time - start

\* check_proxy_speed, lines 25-31: the request ends, with the page or with a
\* RequestException (timeout, refused connection, error status)
ProbeEnd(p) ==
    /\ pc[p] = "request"
    /\ \E ok \in BOOLEAN :
         LET result == IF ok THEN Some(Elapsed(now, start_time[p])) ELSE None IN
         /\ download_time' = [download_time EXCEPT ![p] = result]
         /\ events' = [events EXCEPT ![p] =
                Append(@, Event("checked", idx[p], website(p), result, ""))]
    /\ start_time' = [start_time EXCEPT ![p] = 0]
    /\ pc' = [pc EXCEPT ![p] = "log"]
    /\ UNCHANGED <<now, store, args, idx, sheets, log_call, log_err, mail,
                   journal>>

----------------------------------------------------------------------------
(* log_to_excel *)

\* a variant that hands 0 to log_to_excel in both branches
LogArgsZero(dt) == IF dt # None THEN <<0, "UP">> ELSE <<0, "DOWN">>

\* main(), lines 174-179: the download time and status handed to log_to_excel
LogArgs(dt) == IF dt # None THEN <<dt[1], "UP">> ELSE <<0, "DOWN">>

\* a variant that starts the sheet anew with the row (line 65 without line 63)
MergeReplace(sh, name, row) ==
    IF name \in DOMAIN sh
    THEN [sh EXCEPT ![name] = <<row>>]
    ELSE (name :> <<row>>) @@ sh

\* a variant that puts the new row before the rows of its sheet
MergeFront(sh, name, row) ==
    IF name \in DOMAIN sh
    THEN [sh EXCEPT ![name] = <<row>> \o @]
    ELSE (name :> <<row>>) @@ sh

\* lines 62-65: the new row goes after the rows of its sheet, or starts it
Merge(sh, name, row) ==
    IF name \in DOMAIN sh
    THEN [sh EXCEPT ![name] = Append(@, row)]
    ELSE (name :> <<row>>) @@ sh

\* a variant that alerts only when the sheet's last logged row was not DOWN
\* already (deduplication across runs)
AfterLogDedup(p) ==
    LET old == Rows(store, SheetName[website(p)]) IN
    IF download_time[p] = None /\ ~(old # <<>> /\ old[Len(old)][4] = "DOWN")
    THEN pc' = [pc EXCEPT ![p] = "alert"] /\ idx' = idx
    ELSE NextWebsite(p)

\* log_to_excel returns to main(): the alert follows a failed probe
AfterLog(p) ==
    IF download_time[p] = None
    THEN pc' = [pc EXCEPT ![p] = "alert"] /\ idx' = idx
    ELSE NextWebsite(p)

\* LogCall with the sheet name in the URL column of the row
LogCallKeyUrl(p) ==
    LET la == LogArgs(download_time[p]) IN
    [url |-> website(p), time |-> la[1], status |-> la[2],
     sheet_name |-> SheetName[website(p)],
     row |-> Row(now, SheetName[website(p)], la[1], la[2])]

\* lines 51-53: the call, its sheet name and its row
LogCall(p) ==
    LET la == LogArgs(download_time[p]) IN
    [url |-> website(p), time |-> la[1], status |-> la[2],
     sheet_name |-> SheetName[website(p)],
     row |-> Row(now, website(p), la[1], la[2])]

LogEvent(p, c) == Event("log", idx[p], c.url, Some(c.time), c.status)

LoggedEvent(p) == Event("logged", idx[p], website(p), None, "")

\* lines 51-65: the row is built and the whole log is read into sheets
LogRead(p) ==
    /\ pc[p] = "log"
    /\ store.state # "corrupt"
    /\ LET c == LogCall(p) IN
       /\ log_call' = [log_call EXCEPT ![p] = c]
       /\ events' = [events EXCEPT ![p] = Append(@, LogEvent(p, c))]
       /\ sheets' = [sheets EXCEPT ![p] = Merge(store.sheets, c.sheet_name, c.row)]
    /\ pc' = [pc EXCEPT ![p] = "write"]
    /\ UNCHANGED <<now, store, args, idx, start_time, download_time, log_err,
                   mail, journal>>

\* a variant without the except clause of line 71: the exception ends main()
LogReadFailRaise(p) ==
    /\ pc[p] = "log"
    /\ store.state # "absent"
    /\ LET c == LogCall(p) IN
       /\ log_call' = [log_call EXCEPT ![p] = c]
       /\ events' = [events EXCEPT ![p] = Append(@, LogEvent(p, c))]
    /\ log_err' = [log_err EXCEPT ![p] = "read"]
    /\ pc' = [pc EXCEPT ![p] = "crashed"]
    /\ UNCHANGED <<now, store, args, idx, start_time, download_time, sheets,
                   mail, journal>>

\* lines 56-58, 71-72: the file is there and cannot be read or parsed; the
\* exception is printed and log_to_excel returns
LogReadFail(p) ==
    /\ pc[p] = "log"
    /\ store.state # "absent"
    /\ LET c == LogCall(p) IN
       /\ log_call' = [log_call EXCEPT ![p] = c]
       /\ events' = [events EXCEPT ![p] =
              Append(Append(@, LogEvent(p, c)), LoggedEvent(p))]
    /\ log_err' = [log_err EXCEPT ![p] = "read"]
    /\ AfterLog(p)
    /\ UNCHANGED <<now, store, args, start_time, download_time, sheets, mail,
                   journal>>

\* lines 67-69: every sheet is written to a new workbook that replaces the file
LogWrite(p) ==
    /\ pc[p] = "write"
    /\ store' = Workbook(sheets[p])
    /\ journal' = [journal EXCEPT ![log_call[p].sheet_name] =
                      Append(@, log_call[p].row)]
    /\ sheets' = [sheets EXCEPT ![p] = <<>>]
    /\ events' = [events EXCEPT ![p] = Append(@, LoggedEvent(p))]
    /\ AfterLog(p)
    /\ UNCHANGED <<now, args, start_time, download_time, log_call, log_err, mail>>

\* a variant in which a failed rewrite ends the iteration: the alert of
\* lines 180-184 is skipped
LogWriteFailSkipAlert(p) ==
    /\ pc[p] = "write"
    /\ \E opened \in BOOLEAN :
         store' = IF opened THEN CorruptStore ELSE store
    /\ log_err' = [log_err EXCEPT ![p] = "write"]
    /\ sheets' = [sheets EXCEPT ![p] = <<>>]
    /\ events' = [events EXCEPT ![p] = Append(@, LoggedEvent(p))]
    /\ NextWebsite(p)
    /\ UNCHANGED <<now, args, start_time, download_time, log_call, mail,
                   journal>>

\* lines 67-72: the rewrite raises.  pd.ExcelWriter works on the log file
\* itself, so the file is as it was when it could not be opened for writing
\* and is left truncated or half written when the failure comes later
LogWriteFail(p) ==
    /\ pc[p] = "write"
    /\ \E opened \in BOOLEAN :
         store' = IF opened THEN CorruptStore ELSE store
    /\ log_err' = [log_err EXCEPT ![p] = "write"]
    /\ sheets' = [sheets EXCEPT ![p] = <<>>]
    /\ events' = [events EXCEPT ![p] = Append(@, LoggedEvent(p))]
    /\ AfterLog(p)
    /\ UNCHANGED <<now, args, start_time, download_time, log_call, mail,
                   journal>>

----------------------------------------------------------------------------
(* send_email_alert *)

Call(name, host, port, user, password) ==
    [call |-> name, host |-> host, port |-> port, user |-> user,
     password |-> password]

\* lines 98-99: the local relay
LocalCalls(a) ==
    <<Call("SMTP", Some("localhost"), None, None, None),
      Call("send_message", None, None, None, None)>>

\* lines 107-109: the remote server
RemoteCalls(a) ==
    <<Call("SMTP_SSL", a.smtp_server, a.smtp_port, None, None),
      Call("login", None, None, a.smtp_user, a.smtp_password),
      Call("send_message", None, None, None, None)>>

\* a variant that does not look at the password
SmtpCompleteNoPassword(a) ==
    /\ TruthyStr(a.smtp_server)
    /\ TruthyInt(a.smtp_port)
    /\ TruthyStr(a.smtp_user)

\* all([args.smtp_server, args.smtp_port, args.smtp_user, args.smtp_password])
SmtpComplete(a) ==
    /\ TruthyStr(a.smtp_server)
    /\ TruthyInt(a.smtp_port)
    /\ TruthyStr(a.smtp_user)
    /\ TruthyStr(a.smtp_password)

\* a variant that looks for the recipient in the remote branch only
TransportPlanLateCheck(a) ==
    IF a.use_local_mta THEN LocalCalls(a)
    ELSE IF ~TruthyStr(a.recipient_email) THEN <<>>
    ELSE IF ~SmtpComplete(a) THEN <<>>
    ELSE RemoteCalls(a)

\* lines 84-110: the transport calls send_email_alert makes when none raises
TransportPlan(a) ==
    IF ~TruthyStr(a.recipient_email) THEN <<>>
    ELSE IF a.use_local_mta THEN LocalCalls(a)
    ELSE IF ~SmtpComplete(a) THEN <<>>
    ELSE RemoteCalls(a)

\* lines 84-112: the calls are made in order; one that raises ends them and
\* the exception is printed
send_email_alert(p, a) ==
    LET plan == TransportPlan(a) IN
    \E failing \in 0..Len(plan) :
        mail' = [mail EXCEPT ![p] =
            [calls |-> IF failing = 0 THEN plan ELSE SubSeq(plan, 1, failing),
             result |-> IF plan = <<>> THEN "skipped"
                        ELSE IF failing = 0 THEN "sent" ELSE "failed",
             detected |-> now]]

\* main(), lines 180-184
Alert(p) ==
    /\ pc[p] = "alert"
    /\ send_email_alert(p, args[p])
    /\ events' = [events EXCEPT ![p] =
           Append(Append(@, Event("alert", idx[p], website(p), None, "")),
                  Event("alerted", idx[p], website(p), None, ""))]
    /\ NextWebsite(p)
    /\ UNCHANGED <<now, store, args, start_time, download_time, sheets,
                   log_call, log_err, journal>>

----------------------------------------------------------------------------
(* Specifications *)

\* the steps of main() after the options are resolved
Pipeline(p) ==
    \/ ProbeStart(p)
    \/ ProbeEnd(p)
    \/ LogRead(p)
    \/ LogReadFail(p)
    \/ LogWrite(p)
    \/ LogWriteFail(p)
    \/ Alert(p)

\* one invocation of main(), from its command line to its exit
Next ==
    \/ ParseArgs("run1")
    \/ Pipeline("run1")

Spec == Init /\ [][Next]_vars


\* the namespaces main() accepts (line 161), for lists of websites W and
\* email_alerts settings E
AcceptedArgs(W, E) ==
    {Resolve([host |-> Some("proxy"), port |-> Some(3128), websites |-> w,
              log_file |-> Some("log.xlsx"), recipient_email |-> None,
              use_local_mta |-> FALSE],
             [NoDefaults EXCEPT !.alerts = e]) : w \in W, e \in E}

ListsUpTo(n) == UNION {[1..k -> Urls] : k \in 1..n}

\* one invocation of main() from the moment its options are accepted; main()
\* is a sequential program, which takes its next step
AcceptedInit ==
    /\ Idle
    /\ \E a \in AcceptedArgs(WebsiteLists, EmailSections) :
           args = [p \in Procs |-> IF p = "run1" THEN a ELSE NoArgs]
    /\ pc = [p \in Procs |-> IF p = "run1" THEN "probe" ELSE "start"]
    /\ idx = [p \in Procs |-> IF p = "run1" THEN 1 ELSE 0]

FairSpec ==
    AcceptedInit /\ [][Pipeline("run1")]_vars /\ WF_vars(Pipeline("run1"))

\* one invocation of main() while the wall clock moves, from the moment its
\* options are accepted
TimedInit ==
    /\ Idle
    /\ \E a \in AcceptedArgs(ListsUpTo(MaxTimedTargets),
                             {[FullSmtp EXCEPT !.use_local_mta = TRUE]}) :
           args = [p \in Procs |-> IF p = "run1" THEN a ELSE NoArgs]
    /\ pc = [p \in Procs |-> IF p = "run1" THEN "probe" ELSE "start"]
    /\ idx = [p \in Procs |-> IF p = "run1" THEN 1 ELSE 0]

TimedNext ==
    \/ Tick
    \/ ClockSetBack
    \/ Pipeline("run1")

TimedSpec == TimedInit /\ [][TimedNext]_vars

\* two invocations of main() with the same accepted options on the same log
\* file (a scheduled run that starts before the previous one has ended)
OverlapInit ==
    /\ Idle
    /\ \E a \in AcceptedArgs(ListsUpTo(MaxOverlapTargets),
                             {[FullSmtp EXCEPT !.use_local_mta = TRUE]}) :
           args = [p \in Procs |-> a]
    /\ pc = [p \in Procs |-> "probe"]
    /\ idx = [p \in Procs |-> 1]

OverlapNext == \E p \in Procs : Pipeline(p)

OverlapSpec == OverlapInit /\ [][OverlapNext]_vars

\* send_email_alert alone, for every email_alerts setting: main() has found
\* UrlC down and has logged it in a new file, and is about to alert
AlertInit ==
    LET name == SheetName[UrlC]
        row == Row(0, UrlC, 0, "DOWN")
        c == [url |-> UrlC, time |-> 0, status |-> "DOWN", sheet_name |-> name,
              row |-> row]
    IN
    /\ now = 0
    /\ store = Workbook(name :> <<row>>)
    /\ journal = [n \in SheetNames |-> IF n = name THEN <<row>> ELSE <<>>]
    /\ \E a \in AcceptedArgs({<<UrlC>>}, AlertArgs) :
           args = [p \in Procs |-> IF p = "run1" THEN a ELSE NoArgs]
    /\ pc = [p \in Procs |-> IF p = "run1" THEN "alert" ELSE "start"]
    /\ idx = [p \in Procs |-> IF p = "run1" THEN 1 ELSE 0]
    /\ start_time = [p \in Procs |-> 0]
    /\ download_time = [p \in Procs |-> None]
    /\ sheets = [p \in Procs |-> <<>>]
    /\ log_call = [p \in Procs |-> IF p = "run1" THEN c ELSE NoCall]
    /\ log_err = [p \in Procs |-> "none"]
    /\ events = [p \in Procs |->
           IF p = "run1"
           THEN <<Event("check", 1, UrlC, None, ""),
                  Event("checked", 1, UrlC, None, ""),
                  Event("log", 1, UrlC, Some(0), "DOWN"),
                  Event("logged", 1, UrlC, None, "")>>
           ELSE <<>>]
    /\ mail = [p \in Procs |-> NoMail]

AlertNext == Alert("run1")

AlertSpec == AlertInit /\ [][AlertNext]_vars

----------------------------------------------------------------------------
(* Properties *)

\* the invocation the one-invocation specifications run
Run == "run1"

Calls(p, op, i) ==
    Cardinality({k \in 1..Len(events[p]) :
                    events[p][k].op = op /\ events[p][k].i = i})

\* probes of website i that ended DOWN (check_proxy_speed returned None)
Downs(p, i) ==
    Cardinality({k \in 1..Len(events[p]) :
                    /\ events[p][k].op = "checked"
                    /\ events[p][k].i = i
                    /\ events[p][k].time = None})

\* iteration i of the for loop is over
Finished(p, i) == pc[p] = "done" \/ (pc[p] # "start" /\ pc[p] # "error" /\ idx[p] > i)

Accepted(p) == pc[p] # "start" /\ pc[p] # "error"

\* C1: in one invocation send_email_alert is called once for each website
\* whose probe ended DOWN and never for one whose probe ended UP: at no time
\* are there more alert calls for a website than DOWN outcomes, and once the
\* website's iteration is over there are exactly as many, whatever rows
\* earlier invocations left in the log.
C1_AlertPerDownOutcome ==
    \A i \in 1..Len(args[Run].websites) :
        /\ Calls(Run, "alert", i) <= Downs(Run, i)
        /\ Downs(Run, i) <= 1
        /\ Finished(Run, i) => Calls(Run, "alert", i) = Downs(Run, i)

\* C1 witness: a finished run of two websites, the first UP and the second,
\* UrlA, DOWN with one alert, on a log where an earlier run had already
\* recorded UrlA as DOWN.
C1_Witness ==
    /\ pc[Run] = "done"
    /\ Len(args[Run].websites) = 2
    /\ args[Run].websites[2] = UrlA
    /\ Downs(Run, 1) = 0 /\ Calls(Run, "alert", 1) = 0
    /\ Downs(Run, 2) = 1 /\ Calls(Run, "alert", 2) = 1
    /\ Len(Rows(store, SheetName[UrlA])) = 2
    /\ \A k \in 1..2 : Rows(store, SheetName[UrlA])[k][4] = "DOWN"

\* C2: with a single writer, whatever log the run starts from (none
\* included), the log_to_excel calls that catch no error lengthen the sheet
\* of their website by one row each, the new rows after the old ones in call
\* order, and leave every other sheet as it was: every sheet of the log is
\* the journal of its sheet name, and no other sheet appears.
C2_AppendsInCallOrder ==
    store.state # "corrupt" =>
        /\ \A n \in SheetNames : Rows(store, n) = journal[n]
        /\ DOMAIN store.sheets \subseteq SheetNames

\* C2 witness: UrlA was logged twice in one run, UP then DOWN, after the row
\* an earlier run left in its sheet, and the other sheet kept its one row.
C2_Witness ==
    LET rows == Rows(store, SheetName[UrlA]) IN
    /\ pc[Run] = "done"
    /\ args[Run].websites = <<UrlA, UrlA>>
    /\ Len(rows) = 3
    /\ rows[1] = Row(0, UrlA, 0, "DOWN")
    /\ rows[2][4] = "UP"
    /\ rows[3][4] = "DOWN"
    /\ Rows(store, OtherSheet) = <<Row(0, OtherSheet, 7, "UP")>>

\* C3: once the options are accepted the run reaches done, and at done each
\* website has been probed once and handed to log_to_excel once, whatever
\* probes, log reads, log writes and mail calls failed on the way.
C3_EveryRunReachesDone ==
    /\ Accepted(Run) ~> (pc[Run] = "done")
    /\ [](pc[Run] = "done" =>
            \A i \in 1..Len(args[Run].websites) :
                /\ Calls(Run, "check", i) = 1
                /\ Calls(Run, "checked", i) = 1
                /\ Calls(Run, "log", i) = 1
                /\ Calls(Run, "logged", i) = 1)

\* C3 witness: a finished run of two websites in which the first rewrite of
\* the log failed and left it unreadable, the second probe failed, the
\* second read of the log failed and the mail transport failed.
C3_Witness ==
    /\ pc[Run] = "done"
    /\ Len(args[Run].websites) = 2
    /\ store.state = "corrupt"
    /\ Downs(Run, 2) = 1
    /\ log_err[Run] = "read"
    /\ mail[Run].result = "failed"
    /\ Calls(Run, "log", 1) = 1 /\ Calls(Run, "log", 2) = 1

\* C4: the websites are processed in the order of the configuration, one at
\* a time: the calls of main() are, website by website, check_proxy_speed
\* and its return, log_to_excel and its return, and send_email_alert and its
\* return exactly when the probe ended DOWN; the first call is for website 1
\* and website i + 1 starts after the last return of website i.
C4_SequentialInOrder ==
    LET ev == events[Run]
        F(e, f, op, i) == f.op = op /\ f.i = i
    IN
    /\ ev # <<>> => (ev[1].op = "check" /\ ev[1].i = 1)
    /\ \A k \in 1..Len(ev) :
           /\ ev[k].i \in 1..Len(args[Run].websites)
           /\ ev[k].url = args[Run].websites[ev[k].i]
    /\ \A k \in 1..(Len(ev) - 1) :
           LET e == ev[k]
               f == ev[k + 1]
           IN  CASE e.op = "check" -> F(e, f, "checked", e.i)
                 [] e.op = "checked" -> F(e, f, "log", e.i)
                 [] e.op = "log" -> F(e, f, "logged", e.i)
                 [] e.op = "logged" ->
                        IF Downs(Run, e.i) = 1
                        THEN F(e, f, "alert", e.i)
                        ELSE F(e, f, "check", e.i + 1)
                 [] e.op = "alert" -> F(e, f, "alerted", e.i)
                 [] e.op = "alerted" -> F(e, f, "check", e.i + 1)
    /\ pc[Run] = "done" =>
           /\ ev # <<>>
           /\ ev[Len(ev)].i = Len(args[Run].websites)
           /\ ev[Len(ev)].op = IF Downs(Run, ev[Len(ev)].i) = 1
                               THEN "alerted" ELSE "logged"

\* C4 witness: a finished run of UrlC then UrlA, UrlC found DOWN and alerted
\* before UrlA was probed and found UP.
C4_Witness ==
    /\ pc[Run] = "done"
    /\ args[Run].websites = <<UrlC, UrlA>>
    /\ Len(events[Run]) = 10
    /\ events[Run][6].op = "alerted" /\ events[Run][6].url = UrlC
    /\ events[Run][7].op = "check" /\ events[Run][7].url = UrlA
    /\ Downs(Run, 2) = 0

RECURSIVE IsSubseq(_, _)
IsSubseq(a, b) ==
    IF a = <<>> THEN TRUE
    ELSE IF b = <<>> THEN FALSE
    ELSE IF Head(a) = Head(b) THEN IsSubseq(Tail(a), Tail(b))
    ELSE IsSubseq(a, Tail(b))

\* C5: when two invocations overlap on one log file the log can only lose
\* rows: each sheet holds rows of its journal, in journal order, never more.
\* That it does lose one (the witness) is the claim: a row an invocation
\* appended without error is absent after the other one's rewrite.
C5_OverlapOnlyLosesRows ==
    store.state # "corrupt" =>
        \A n \in SheetNames : IsSubseq(Rows(store, n), journal[n])

\* C5 witness: both invocations are done, neither log_to_excel call caught
\* an error, and a sheet of the log has fewer rows than were appended to it.
C5_LostUpdate ==
    /\ \A p \in Procs : pc[p] = "done" /\ log_err[p] = "none"
    /\ store.state = "ok"
    /\ \E n \in SheetNames : Len(Rows(store, n)) < Len(journal[n])

\* C6 as claimed: a log_to_excel call that fails while reading or while
\* rewriting the log leaves the rows of every sheet as they were.
C6_FailedCallKeepsRows ==
    [][(LogReadFail(Run) \/ LogWriteFail(Run)) =>
          \A n \in SheetNames : Rows(store', n) = Rows(store, n)]_vars

\* C7: log_to_excel is called with the outcome of the probe just made: status
\* DOWN and time 0 when check_proxy_speed returned None, status UP and the
\* returned duration otherwise; the row built for the log holds that status
\* and that time, formatted.
C7_RowMatchesOutcome ==
    LET ev == events[Run] IN
    /\ \A k \in 1..Len(ev) :
           ev[k].op = "log" =>
               /\ k > 1
               /\ ev[k - 1].op = "checked"
               /\ ev[k - 1].i = ev[k].i
               /\ IF ev[k - 1].time = None
                  THEN ev[k].status = "DOWN" /\ ev[k].time = Some(0)
                  ELSE ev[k].status = "UP" /\ ev[k].time = ev[k - 1].time
    /\ log_call[Run] # NoCall =>
           /\ ev[Len(ev)].op \in {"log", "logged", "alert", "alerted"}
           /\ \E k \in 1..Len(ev) :
                  /\ ev[k].op = "log"
                  /\ \A j \in (k + 1)..Len(ev) : ev[j].op # "log"
                  /\ log_call[Run].row[2] = ev[k].url
                  /\ log_call[Run].row[3] = Fmt4(ev[k].time[1])
                  /\ log_call[Run].row[4] = ev[k].status

\* C7 witness: a probe that took time succeeded and its row, with that time,
\* is in the log.
C7_Witness ==
    /\ \E k \in 1..Len(events[Run]) :
           /\ events[Run][k].op = "log"
           /\ events[Run][k].status = "UP"
           /\ events[Run][k].time = Some(2)
    /\ pc[Run] = "done"
    /\ store.state = "ok"
    /\ \E n \in DOMAIN store.sheets :
           store.sheets[n][Len(store.sheets[n])][3] = <<"0", ".", "0", "0", "0", "2">>

\* C8: without a recipient (None or empty) send_email_alert makes no
\* transport call, local or remote, and returns, whatever the mode flag and
\* the SMTP fields are.
C8_NoRecipientNoTransport ==
    (mail[Run].result # "" /\ args[Run].recipient_email \in {None, Some("")}) =>
        /\ mail[Run].calls = <<>>
        /\ mail[Run].result = "skipped"
        /\ pc[Run] = "done"

\* C8 witness: send_email_alert has returned without a call although the
\* local MTA was selected and the SMTP fields were complete.
C8_Witness ==
    /\ mail[Run].result = "skipped"
    /\ args[Run].recipient_email = None
    /\ args[Run].use_local_mta
    /\ SmtpComplete(args[Run])

\* C9: with a recipient, a notification uses one channel at most, chosen by
\* the mode flag: with the local MTA every call goes to the local relay and
\* no SMTP field is used; otherwise the remote server is contacted only when
\* server, port, user and password are all present, with those values, and
\* no call is made when one of them is absent.
C9_OneChannelByMode ==
    LET a == args[Run]
        calls == mail[Run].calls
        AnyAbsent == \/ a.smtp_server = None \/ a.smtp_port = None
                     \/ a.smtp_user = None \/ a.smtp_password = None
    IN
    (mail[Run].result # "" /\ TruthyStr(a.recipient_email)) =>
        IF a.use_local_mta
        THEN /\ calls # <<>>
             /\ calls[1] = Call("SMTP", Some("localhost"), None, None, None)
             /\ \A k \in 1..Len(calls) :
                    /\ calls[k].call \in {"SMTP", "send_message"}
                    /\ calls[k].port = None
                    /\ calls[k].user = None
                    /\ calls[k].password = None
        ELSE /\ calls # <<>> =>
                    /\ ~AnyAbsent
                    /\ calls[1] = Call("SMTP_SSL", a.smtp_server, a.smtp_port,
                                       None, None)
                    /\ \A k \in 1..Len(calls) : calls[k].call # "SMTP"
                    /\ Len(calls) >= 2 =>
                           calls[2] = Call("login", None, None, a.smtp_user,
                                           a.smtp_password)
             /\ AnyAbsent => (calls = <<>> /\ mail[Run].result = "skipped")

\* C9 witness: with complete SMTP fields in the configuration and the local
\* MTA selected, the message went to the local relay.
C9_Witness ==
    /\ mail[Run].result = "sent"
    /\ args[Run].use_local_mta
    /\ SmtpComplete(args[Run])
    /\ Len(mail[Run].calls) = 2
    /\ mail[Run].calls[1].host = Some("localhost")

\* C10: when host, port, list of websites or log file is missing after the
\* options are resolved, main() ends in parser.error() and has made no probe,
\* no read or write of the log and no alert.
C10_ConfigErrorBeforeAnyTarget ==
    LET a == args[Run]
        Missing == \/ a.host = None \/ a.port = None
                   \/ a.websites = <<>> \/ a.log_file = None
    IN
    /\ (pc[Run] # "start" /\ Missing) => pc[Run] = "error"
    /\ pc[Run] = "error" =>
           /\ events[Run] = <<>>
           /\ mail[Run] = NoMail
           /\ sheets[Run] = <<>>
           /\ log_call[Run] = NoCall
           /\ store \in InitialStores
           /\ journal = [n \in SheetNames |-> Rows(store, n)]

\* C10 witness: only the log file is missing and main() has ended in error.
C10_Witness ==
    /\ pc[Run] = "error"
    /\ args[Run].log_file = None
    /\ args[Run].host # None /\ args[Run].port = Some(3128)
    /\ args[Run].websites # <<>>
    /\ args[Run].recipient_email # None

----------------------------------------------------------------------------
(* sanitize_sheet_name on its own: the sheet name of any target string *)

\* the number of pieces of a target string
MaxTokens == 3

\* the length of the run of letters that makes a target string long
FillerLen == 16

Filler == [i \in 1..FillerLen |-> "x"]

\* the pieces target strings are made of: the three substrings line 35
\* removes, the seven characters of line 36, a letter and a run of letters
SanitizeTokens ==
    {HttpsPrefix, HttpPrefix, WwwPrefix, <<"a">>, Filler,
     <<"[">>, <<"]">>, <<"/">>, <<"\\">>, <<"?">>, <<"*">>, <<":">>}

RECURSIVE Flatten(_)
Flatten(ts) == IF ts = <<>> THEN <<>> ELSE Head(ts) \o Flatten(Tail(ts))

\* the url arguments: every string of one to MaxTokens pieces
SanitizeInputs ==
    {Flatten(ts) : ts \in UNION {[1..n -> SanitizeTokens] : n \in 1..MaxTokens}}

\* log_to_excel is entered for one website (line 50)
SanitizeInit ==
    /\ Idle
    /\ store = AbsentStore
    /\ \E a \in AcceptedArgs({<<u>> : u \in SanitizeInputs}, {NoAlertArgs}) :
           args = [p \in Procs |-> IF p = "run1" THEN a ELSE NoArgs]
    /\ pc = [p \in Procs |-> IF p = "run1" THEN "sanitize" ELSE "start"]
    /\ idx = [p \in Procs |-> IF p = "run1" THEN 1 ELSE 0]

\* line 51: sheet_name = sanitize_sheet_name(url)
SanitizeCall(p) ==
    /\ pc[p] = "sanitize"
    /\ log_call' = [log_call EXCEPT ![p] =
           [NoCall EXCEPT !.url = website(p),
                          !.sheet_name = sanitize_sheet_name(website(p))]]
    /\ pc' = [pc EXCEPT ![p] = "sanitized"]
    /\ UNCHANGED <<now, store, args, idx, start_time, download_time, sheets,
                   log_err, events, mail, journal>>

SanitizeNext == SanitizeCall("run1")

SanitizeSpec == SanitizeInit /\ [][SanitizeNext]_vars

\* s[n:] when s starts with pre, else s
StripLeading(s, pre) ==
    IF Len(s) >= Len(pre) /\ SubSeq(s, 1, Len(pre)) = pre
    THEN SubSeq(s, Len(pre) + 1, Len(s))
    ELSE s

\* the sheet name when only a leading https://, http:// and www. are removed
LeadingOnlyName(url) ==
    LET name == StripLeading(StripLeading(StripLeading(url, HttpsPrefix),
                                          HttpPrefix), WwwPrefix)
    IN  Prefix(ReplaceChars(name, <<"[", "]", "/", "\\", "?", "*", ":">>), 31)

\* C11: for every target string, the sheet name sanitize_sheet_name returns
\* (one value per string: the function reads nothing but its argument) has
\* at most 31 characters and holds none of the characters [ ] / \ ? * :
C11_SheetNameIsValid ==
    pc[Run] = "sanitized" =>
        LET name == log_call[Run].sheet_name IN
        /\ Len(name) <= 31
        /\ \A k \in 1..Len(name) :
               name[k] \notin {"[", "]", "/", "\\", "?", "*", ":"}

\* C11 witness: a target string of more than 31 characters that holds a
\* forbidden character within the first 31 has been given its sheet name.
C11_Witness ==
    /\ pc[Run] = "sanitized"
    /\ Len(log_call[Run].url) > 31
    /\ \E k \in 1..31 : log_call[Run].url[k] = ":"
    /\ Len(log_call[Run].sheet_name) = 31

\* C12: for every target string, the sheet name equals the one derived by
\* removing only a leading https://, http:// and www., replacing the
\* characters [ ] / \ ? * : by _ and keeping the first 31 characters
C12_OnlyLeadingPrefixStripped ==
    pc[Run] = "sanitized" =>
        log_call[Run].sheet_name = LeadingOnlyName(log_call[Run].url)

\* C13: every call of log_to_excel with status UP, and every row with status
\* UP in the log, has a time that is not below 0: the difference of the two
\* time.time() readings of check_proxy_speed is never negative
C13_UpLatencyNonNegative ==
    /\ \A k \in 1..Len(events[Run]) :
           (events[Run][k].op = "log" /\ events[Run][k].status = "UP") =>
               events[Run][k].time[1] >= 0
    /\ \A n \in DOMAIN store.sheets :
           \A k \in 1..Len(store.sheets[n]) :
               store.sheets[n][k][4] = "UP" => store.sheets[n][k][3][1] # "-"

\* C14: for a website found DOWN, the timestamp of the row built for the log
\* and the timestamp in the body of the alert are the same moment
C14_OneCapturedMoment ==
    (/\ mail[Run].result # ""
     /\ log_call[Run] # NoCall
     /\ log_call[Run].status = "DOWN") =>
        mail[Run].detected = log_call[Run].row[1]

\* C15: when a call of log_to_excel catches nothing and the sheet of its
\* website ends with the row of another website of this run that has the same
\* sheet name, the call adds its row, holding its own URL, after the rows of
\* that sheet, which keep theirs, and the log has the same sheets as before:
\* the two websites share one sheet and no second one is made for them
C15_CollidingTargetsShareSheet ==
    [][(/\ pc[Run] = "write"
        /\ pc'[Run] # "write"
        /\ log_err'[Run] = "none"
        /\ LET rows == Rows(store, log_call[Run].sheet_name) IN
           \E j \in 1..(idx[Run] - 1) :
               /\ args[Run].websites[j] # website(Run)
               /\ SheetName[args[Run].websites[j]] = log_call[Run].sheet_name
               /\ rows # <<>>
               /\ rows[Len(rows)][2] = args[Run].websites[j])
       =>
       (/\ store'.state = "ok"
        /\ Rows(store', log_call[Run].sheet_name) =
               Append(Rows(store, log_call[Run].sheet_name), log_call[Run].row)
        /\ log_call[Run].row[2] = website(Run)
        /\ DOMAIN store'.sheets = DOMAIN store.sheets)]_vars

\* C15 witness: a run of http://a then https://a on no log has ended with
\* the single sheet "a" holding the row of http://a and then that of
\* https://a.
C15_Witness ==
    /\ pc[Run] = "done"
    /\ args[Run].websites = <<UrlA, UrlB>>
    /\ store.state = "ok"
    /\ DOMAIN store.sheets = {<<"a">>}
    /\ Len(store.sheets[<<"a">>]) = 2
    /\ store.sheets[<<"a">>][1][2] = UrlA
    /\ store.sheets[<<"a">>][2][2] = UrlB

\* C16: when log_to_excel caught an exception (while reading or while
\* rewriting the log) for a website whose probe ended DOWN, main() goes on to
\* the alert, and when that iteration is over send_email_alert has been called
\* and has returned exactly once for that website, before any step of the
\* next website
C16_AlertDespiteFailedLog ==
    LET i == IF pc[Run] = "probe" THEN idx[Run] - 1 ELSE idx[Run] IN
    (/\ pc[Run] \in {"alert", "probe", "done"}
     /\ log_err[Run] # "none"
     /\ Downs(Run, i) = 1) =>
        /\ events[Run][Len(events[Run])].i = i
        /\ IF pc[Run] = "alert"
           THEN /\ Calls(Run, "alert", i) = 0
                /\ events[Run][Len(events[Run])].op = "logged"
           ELSE /\ Calls(Run, "alert", i) = 1
                /\ Calls(Run, "alerted", i) = 1
                /\ events[Run][Len(events[Run])].op = "alerted"
                /\ mail[Run].result # ""

\* C16 witness: the rewrite of the log failed for a website that was DOWN and
\* the alert for it was sent all the same.
C16_Witness ==
    /\ pc[Run] = "done"
    /\ log_err[Run] = "write"
    /\ Downs(Run, idx[Run]) = 1
    /\ Calls(Run, "alert", idx[Run]) = 1
    /\ mail[Run].result = "sent"

====
